---- MODULE Spec2Model ----
(***************************************************************************)
(* Model of the PDF-to-Word conversion server (final revision,             *)
(* src/unnamed/part_002): the text normalizer cleanText as a pure          *)
(* operator over character sequences, and the POST /convert request        *)
(* pipeline as a state machine over requests, files and timers.            *)
(***************************************************************************)
EXTENDS Integers, Sequences, FiniteSets, TLC

(***************************************************************************)
(* Bounds of the model.                                                    *)
(***************************************************************************)
\* longest input string handed to cleanText
MaxLen == 5

(***************************************************************************)
(* JavaScript strings are sequences of one-character strings.              *)
(***************************************************************************)
Letters == {"a", "b"}

Whitespace == {" ", "\t", "\r", "\n"}

Chars == Letters \cup Whitespace

\* \s of a JavaScript regular expression, on the characters of the model
IsSpace(c) == c \in Whitespace

\* LineTerminator of ECMAScript: what ^ and $ look at under the m flag
IsLineTerminator(c) == c \in {"\n", "\r"}

\* s without its first n characters
Drop(s, n) == SubSeq(s, n + 1, Len(s))

Range(s) == {s[i] : i \in 1..Len(s)}

\* length of the longest prefix of s from position i on whose characters are all in S
RECURSIVE RunLen(_, _, _)
RunLen(s, i, S) ==
    IF i > Len(s) \/ s[i] \notin S THEN 0 ELSE 1 + RunLen(s, i + 1, S)

(***************************************************************************)
(* The JavaScript values cleanText may be handed: a string, or one of the  *)
(* values for which !text or typeof text !== 'string' holds.               *)
(***************************************************************************)
Str(s) == [type |-> "string", str |-> s]

Undefined == [type |-> "undefined", str |-> <<>>]

Null == [type |-> "object", str |-> <<>>]

\* a number, as a value that is not a string (truthy)
NumberValue == [type |-> "number", str |-> <<>>]

\* !text
Falsy(v) == v = Undefined \/ v = Null \/ v = Str(<<>>)

NoTextPlaceholder ==
    <<"N", "o", " ", "r", "e", "a", "d", "a", "b", "l", "e", " ", "t", "e", "x",
      "t", " ", "f", "o", "u", "n", "d", " ", "i", "n", " ", "t", "h", "i", "s",
      " ", "P", "D", "F", " ", "d", "o", "c", "u", "m", "e", "n", "t", ".">>

EmptyPlaceholder ==
    <<"D", "o", "c", "u", "m", "e", "n", "t", " ", "a", "p", "p", "e", "a", "r",
      "s", " ", "t", "o", " ", "b", "e", " ", "e", "m", "p", "t", "y", " ", "o",
      "r", " ", "c", "o", "n", "t", "a", "i", "n", "s", " ", "o", "n", "l", "y",
      " ", "i", "m", "a", "g", "e", "s", ".">>

(***************************************************************************)
(* The five replace calls of cleanText, each a left-to-right global        *)
(* replacement with greedy quantifiers.                                    *)
(***************************************************************************)
\* .replace(/\r\n/g, '\n')
RECURSIVE ReplaceCRLF(_)
ReplaceCRLF(s) ==
    IF s = <<>> THEN <<>>
    ELSE IF Len(s) >= 2 /\ s[1] = "\r" /\ s[2] = "\n"
         THEN <<"\n">> \o ReplaceCRLF(Drop(s, 2))
         ELSE <<s[1]>> \o ReplaceCRLF(Tail(s))

\* the second replace left out
ReplaceCRMissing(s) == s

\* .replace(/\r/g, '\n')
ReplaceCR(s) == [i \in 1..Len(s) |-> IF s[i] = "\r" THEN "\n" ELSE s[i]]

\* .replace(/\n{3,}/g, '\n\n')
RECURSIVE CollapseNewlines(_)
CollapseNewlines(s) ==
    IF s = <<>> THEN <<>>
    ELSE LET k == RunLen(s, 1, {"\n"})
         IN  IF k >= 3
             THEN <<"\n", "\n">> \o CollapseNewlines(Drop(s, k))
             ELSE <<s[1]>> \o CollapseNewlines(Tail(s))

\* the fourth replace with the quantifier {2} for {2,}
RECURSIVE CollapseBlankPairs(_)
CollapseBlankPairs(s) ==
    IF s = <<>> THEN <<>>
    ELSE IF RunLen(s, 1, {" ", "\t"}) >= 2
         THEN <<" ">> \o CollapseBlankPairs(Drop(s, 2))
         ELSE <<s[1]>> \o CollapseBlankPairs(Tail(s))

\* .replace(/[ \t]{2,}/g, ' ')
RECURSIVE CollapseBlanks(_)
CollapseBlanks(s) ==
    IF s = <<>> THEN <<>>
    ELSE LET k == RunLen(s, 1, {" ", "\t"})
         IN  IF k >= 2
             THEN <<" ">> \o CollapseBlanks(Drop(s, k))
             ELSE <<s[1]>> \o CollapseBlanks(Tail(s))

\* ^ under the m flag: at the start of the input or right after a line terminator
AtLineStart(s, i) == i = 1 \/ IsLineTerminator(s[i - 1])

\* $ under the m flag: at the end of the input or right before a line terminator
AtLineEnd(s, i) == i = Len(s) + 1 \/ IsLineTerminator(s[i])

\* \s+$ tried at position i: the greatest n >= 1 with s[i..i+n-1] all \s and $
\* holding at i+n (greedy, then backtracking); 0 when there is none
TrailingMatch(s, i) ==
    LET k == RunLen(s, i, Whitespace)
        ok == {n \in 1..k : AtLineEnd(s, i + n)}
    IN  IF ok = {} THEN 0 ELSE CHOOSE n \in ok : \A m \in ok : m <= n

\* .replace(/^\s+|\s+$/gm, ''), scanning from position i of s
RECURSIVE TrimLinesFrom(_, _)
TrimLinesFrom(s, i) ==
    IF i > Len(s) THEN <<>>
    ELSE IF AtLineStart(s, i) /\ IsSpace(s[i])
         THEN TrimLinesFrom(s, i + RunLen(s, i, Whitespace))
         ELSE LET n == TrailingMatch(s, i)
              IN  IF n > 0
                  THEN TrimLinesFrom(s, i + n)
                  ELSE <<s[i]>> \o TrimLinesFrom(s, i + 1)

TrimLines(s) == TrimLinesFrom(s, 1)

\* String.prototype.trim
RECURSIVE TrimEnd(_)
TrimEnd(s) ==
    IF s # <<>> /\ IsSpace(s[Len(s)]) THEN TrimEnd(SubSeq(s, 1, Len(s) - 1)) ELSE s

Trim(s) == TrimEnd(Drop(s, RunLen(s, 1, Whitespace)))

\* the chain without its || fallback
OrElseMissing(s, d) == s

\* x || y on strings: the empty string is falsy
OrElse(s, d) == IF s = <<>> THEN d ELSE s

\* the placeholder of the earlier server revision
EarlierPlaceholder ==
    <<"N", "o", " ", "t", "e", "x", "t", " ", "c", "o", "n", "t", "e", "n", "t",
      " ", "f", "o", "u", "n", "d", " ", "i", "n", " ", "P", "D", "F">>

\* cleanText of the earlier server revision, on the values that have a replace
\* method or are falsy
cleanTextEarlier(text) ==
    IF Falsy(text)
    THEN EarlierPlaceholder
    ELSE Trim(CollapseBlanks(CollapseNewlines(ReplaceCR(ReplaceCRLF(text.str)))))

cleanText(text) ==
    IF Falsy(text) \/ text.type # "string"
    THEN NoTextPlaceholder
    ELSE OrElse(Trim(TrimLines(CollapseBlanks(CollapseNewlines(
                     ReplaceCR(ReplaceCRLF(text.str)))))),
                EmptyPlaceholder)

(***************************************************************************)
(* Bounds of the request model.                                            *)
(***************************************************************************)
\* number of POST /convert requests
NumReq == 2

\* number of calls of gracefulShutdown that are told apart
MaxShutdowns == 2

\* last value of the millisecond clock read by Date.now()
MaxClock == 1

\* greatest value of the random suffix Math.round(Math.random() * 1E9) drawn
MaxRand == 0

Reqs == 1..NumReq

\* number of GET /download/:filename requests
NumDl == 2

\* number of POST /convert requests that arrive beside the downloads
NumDlReq == 1

\* number of GET / requests
NumIdx == 1

Dls == 1..NumDl

DlReqs == 1..NumDlReq

Idxs == 1..NumIdx

\* number of POST /convert requests sent to the earlier server revision
NumEarlierReq == 2

EarlierReqs == 1..NumEarlierReq

\* number of distinct PDF files the user of the browser client picks from
NumFiles == 2

\* number of fetch('/convert') calls of the browser client
NumFetch == 2

Fetches == 1..NumFetch

None == <<>>

(***************************************************************************)
(* Upload Gatekeeper: the multer configuration.                            *)
(***************************************************************************)
\* limits.fileSize, in bytes
FileSizeLimit == 10 * 1024 * 1024

\* limits.files
FilesLimit == 1

\* the multipart bodies sent: nfiles file parts in field pdfFile, the first of
\* the given declared type and size in bytes
Upload(mimetype, size, nfiles) == [mimetype |-> mimetype, size |-> size, nfiles |-> nfiles]

NoFile == Upload("", 0, 0)

Uploads ==
    {NoFile,
     Upload("application/pdf", 1, 1),
     Upload("image/png", 1, 1),
     Upload("application/pdf", FileSizeLimit + 1, 1),
     Upload("application/pdf", 1, 2)}

\* a fileFilter that accepts every declared type
FileFilterAcceptAll(mimetype) == TRUE

\* fileFilter
FileFilter(mimetype) == mimetype = "application/pdf"

\* the error upload.single('pdfFile') hands to its callback ("none": no error),
\* for a body of nfiles file parts of the given declared type and size; ioError
\* is a failure of the disk storage while the file is stored
UploadError(mimetype, size, nfiles, ioError) ==
    IF nfiles = 0 THEN "none"
    ELSE IF ~FileFilter(mimetype) THEN "Only PDF files are allowed"
    ELSE IF size > FileSizeLimit THEN "LIMIT_FILE_SIZE"
    ELSE IF nfiles > FilesLimit THEN "LIMIT_FILE_COUNT"
    ELSE IF ioError THEN "UPLOAD_IO"
    ELSE "none"

\* the errors of the handler that are upload-validation errors
ValidationErrors ==
    {"LIMIT_FILE_SIZE", "LIMIT_FILE_COUNT", "Only PDF files are allowed", "No file uploaded"}

\* errorMessage of the catch block
CatchMessage(error) ==
    IF error = "LIMIT_FILE_SIZE" THEN "File too large. Maximum size is 10MB"
    ELSE IF error = "Only PDF files are allowed" THEN "Please select a valid PDF file"
    ELSE IF error = "No file uploaded" THEN "No file was uploaded"
    ELSE "Failed to convert PDF"

\* the status the catch block answers with
CatchStatus(error) == 400

\* file.fieldname + '-' + Date.now() + '-' + random suffix + extension
UploadFileName(t, rnd) == <<"pdfFile-", t, "-", rnd, ".pdf">>

DigitChars == <<"0", "1", "2", "3", "4", "5", "6", "7", "8", "9">>

\* the decimal digits of a number, as template literals and '+' print it
RECURSIVE ToDigits(_)
ToDigits(n) ==
    IF n < 10 THEN <<DigitChars[n + 1]>>
    ELSE Append(ToDigits(n \div 10), DigitChars[(n % 10) + 1])

ConvertedPrefix == <<"c", "o", "n", "v", "e", "r", "t", "e", "d", "-">>

DocxSuffix == <<".", "d", "o", "c", "x">>

\* an output name with the extension of the older Word format
OutputFileNameDoc(t) == ConvertedPrefix \o ToDigits(t) \o <<".", "d", "o", "c">>

\* `converted-${Date.now()}.docx`
OutputFileName(t) == ConvertedPrefix \o ToDigits(t) \o DocxSuffix

\* `/download/${outputFileName}`
DownloadUrl(name) == <<"/", "d", "o", "w", "n", "l", "o", "a", "d", "/">> \o name

(***************************************************************************)
(* Extraction Adapter.                                                     *)
(***************************************************************************)
\* texts pdfParse resolves with (pdfData.text)
PdfTexts == {Str(<<"a", "\n", "\n", "b">>)}

\* messages of the errors readFileSync throws and pdfParse rejects with
ErrorMessages == {<<"b", "a", "d">>}

ErrorPrefix ==
    <<"E", "r", "r", "o", "r", " ", "e", "x", "t", "r", "a", "c", "t", "i", "n",
      "g", " ", "t", "e", "x", "t", " ", "f", "r", "o", "m", " ", "P", "D", "F",
      ":", " ">>

ErrorSuffix ==
    <<"\n", "\n", "T", "h", "i", "s", " ", "m", "a", "y", " ", "b", "e", " ", "a",
      "n", " ", "i", "m", "a", "g", "e", "-", "b", "a", "s", "e", "d", " ", "P",
      "D", "F", " ", "o", "r", " ", "t", "h", "e", " ", "f", "i", "l", "e", " ",
      "m", "a", "y", " ", "b", "e", " ", "c", "o", "r", "r", "u", "p", "t", "e",
      "d", ".">>

\* the inner catch block with the message left out of the template
ExtractionFallbackNoMessage(message) == ErrorPrefix \o ErrorSuffix

\* extractedText of the inner catch block
ExtractionFallback(message) == ErrorPrefix \o message \o ErrorSuffix

(***************************************************************************)
(* Document Builder.                                                       *)
(***************************************************************************)
\* req.file.originalname of the uploads the server is sent
UploadNames == {<<"a", ".", "p", "d", "f">>}

\* req.file.originalname of the documents built
OriginalNames == UploadNames \cup {<<"b", " ", ".", "p", "d", "f">>}

HeaderText ==
    <<"P", "D", "F", " ", "t", "o", " ", "W", "o", "r", "d", " ", "C", "o", "n", "v",
      "e", "r", "s", "i", "o", "n">>

SourcePrefix == <<"S", "o", "u", "r", "c", "e", ":", " ">>

\* docx.createP(options) followed by addText(text, ...)
TextParagraph(align, text) == [kind |-> "text", align |-> align, text |-> text]

\* docx.createP().addLineBreak()
LineBreakParagraph == [kind |-> "break", align |-> "default", text |-> <<>>]

\* s.split('\n\n'): the pieces between the occurrences of the separator, found
\* from left to right without overlap
RECURSIVE Split(_)
Split(s) ==
    LET hits == {i \in 1..(Len(s) - 1) : s[i] = "\n" /\ s[i + 1] = "\n"}
    IN  IF hits = {} THEN <<s>>
        ELSE LET i == CHOOSE h \in hits : \A g \in hits : h <= g
             IN  <<SubSeq(s, 1, i - 1)>> \o Split(Drop(s, i + 1))

\* a forEach body that adds every block as it is
ContentParagraphUntrimmed(paragraph) == TextParagraph("default", paragraph)

\* the body of paragraphs.forEach
ContentParagraph(paragraph) ==
    IF Trim(paragraph) # <<>>
    THEN TextParagraph("default", Trim(paragraph))
    ELSE LineBreakParagraph

\* the paragraphs created on docx, in the order of the createP calls
BuildDocument(extractedText, originalname) ==
    LET paragraphs == Split(extractedText)
    IN  <<TextParagraph("center", HeaderText),
          TextParagraph("center", SourcePrefix \o originalname),
          LineBreakParagraph>>
        \o [i \in 1..Len(paragraphs) |-> ContentParagraph(paragraphs[i])]

(***************************************************************************)
(* Retention Manager.                                                      *)
(***************************************************************************)
\* the directory after safeFileCleanup(filePath); unlinkOk: unlinkSync succeeds
safeFileCleanup(dir, filePath, unlinkOk) ==
    IF filePath # None /\ filePath \in dir /\ unlinkOk THEN dir \ {filePath} ELSE dir

\* what a safeFileCleanup without its try/catch does: unlinkSync's error escapes
CleanupOutcomeNoCatch(dir, filePath, unlinkOk) ==
    IF filePath = None \/ filePath \notin dir THEN "absent"
    ELSE IF unlinkOk THEN "deleted" ELSE "threw"

\* what safeFileCleanup(filePath) did: nothing ("absent"), unlinked the file
\* ("deleted"), or logged the error unlinkSync threw ("failed")
CleanupOutcome(dir, filePath, unlinkOk) ==
    IF filePath = None \/ filePath \notin dir THEN "absent"
    ELSE IF unlinkOk THEN "deleted" ELSE "failed"

\* delay of the timer the finally block of POST /convert sets, in ms
TempRetention == 1000

\* delay of the timer a completed download sets, in ms
DownloadRetention == 120000

(***************************************************************************)
(* Download Gateway.                                                       *)
(***************************************************************************)
\* the pattern without its anchors: /converted-\d+\.docx/ matches anywhere
ValidFilenameUnanchored(filename) ==
    \E i \in 1..Len(filename) :
        LET s == Drop(filename, i - 1)
            digits == RunLen(s, Len(ConvertedPrefix) + 1, Range(DigitChars))
        IN  /\ Len(s) >= Len(ConvertedPrefix)
            /\ SubSeq(s, 1, Len(ConvertedPrefix)) = ConvertedPrefix
            /\ digits >= 1
            /\ Len(s) >= Len(ConvertedPrefix) + digits + Len(DocxSuffix)
            /\ SubSeq(s, Len(ConvertedPrefix) + digits + 1,
                      Len(ConvertedPrefix) + digits + Len(DocxSuffix)) = DocxSuffix

\* /^converted-\d+\.docx$/.test(filename): the prefix at the start, then the
\* longest run of digits (one or more), then ".docx" up to the end of the input
ValidFilename(filename) ==
    LET digits == RunLen(filename, Len(ConvertedPrefix) + 1, Range(DigitChars))
    IN  /\ Len(filename) >= Len(ConvertedPrefix)
        /\ SubSeq(filename, 1, Len(ConvertedPrefix)) = ConvertedPrefix
        /\ digits >= 1
        /\ Drop(filename, Len(ConvertedPrefix) + digits) = DocxSuffix

\* req.params.filename of requests: the names POST /convert can hand out, a
\* traversal name (%2F decodes to "/"), and a name without digits
InvalidNames ==
    {<<".", ".", "/">> \o OutputFileName(0), ConvertedPrefix \o DocxSuffix}

\* the files of outputDir, given the (name, writer) pairs of the streams opened
OutputDir(out) == {p[1] : p \in out}

\* a handler without the existence check
OutputExistsUnchecked(out, filename) == TRUE

\* fs.existsSync(path.join(outputDir, filename))
OutputExists(out, filename) == filename \in OutputDir(out)

(***************************************************************************)
(* State.                                                                  *)
(***************************************************************************)
VARIABLES
    input,          \* the value handed to cleanText
    cleaned,        \* cleanText(input), once computed
    recleaned,      \* cleanText(cleaned), once computed
    tpc,            \* "start", "once", "twice", "built", or "earlier", "earlier twice"
                    \* when cleaned and recleaned are those of the earlier
                    \* revision; "idle" while the server runs
    built,          \* the text and name a document was built from, and the document
    now,            \* Date.now()
    req,            \* the POST /convert requests
    uploads,        \* the paths that exist in uploadsDir
    output,         \* <<name, r>>: file name of outputDir exists, opened for writing by r
    timers,         \* the pending setTimeout(() => safeFileCleanup(...)) calls
    isShuttingDown, \* the flag of the same name
    forceArmed,     \* the number of pending 10 s forced-exit timers of gracefulShutdown
    exitCode,       \* -1 while the process runs, else the code of process.exit
    dl,             \* the GET /download/:filename requests
    index,          \* the status each GET / request was answered with, 0 before
    ereq,           \* the POST /convert requests of the earlier server revision
    ecode,          \* -1 while the earlier revision's process runs, else its exit code
    gone,           \* <<name, outcome>>: a deletion timer ran for the name with
                    \* that outcome, and no stream has opened the name since
    selectedFile,   \* the client's variable of the same name: Null or a file
    downloadUrl,    \* the client's variable of the same name: Null, or the fetch
                    \* whose response carried the URL
    convertDisabled,\* convertBtn.disabled
    display,        \* which elements of the page are displayed
    fetches,        \* the fetch('/convert') calls of the client
    location        \* window.location.href: Null, or the download URL navigated to

textVars == <<input, cleaned, recleaned, tpc, built>>

serverVars == <<now, req, uploads, output, timers, isShuttingDown, forceArmed, exitCode>>

webVars == <<dl, index>>

earlierVars == <<ereq, ecode>>

clientVars == <<selectedFile, downloadUrl, convertDisabled, display, fetches, location>>

vars == <<textVars, serverVars, webVars, gone, earlierVars, clientVars>>

(***************************************************************************)
(* The normalizer on its own: cleanText applied to every value of a        *)
(* bounded set, and to its own result.                                     *)
(***************************************************************************)
RECURSIVE StringsUpTo(_)
StringsUpTo(n) ==
    IF n = 0 THEN {<<>>}
    ELSE LET shorter == StringsUpTo(n - 1)
         IN  shorter \cup {Append(s, c) : s \in {t \in shorter : Len(t) = n - 1}, c \in Chars}

TextInputs == {Str(s) : s \in StringsUpTo(MaxLen)} \cup {Undefined, Null, NumberValue}

\* a request that has not arrived at the earlier revision
NewEarlierRequest ==
    [pc |-> "new", upload |-> NoFile, file |-> FALSE, tempFile |-> "none",
     extracted |-> "no", status |-> 0, body |-> "none"]

EarlierInit ==
    /\ ereq = [e \in EarlierReqs |-> NewEarlierRequest]
    /\ ecode = -1

\* the elements of the page that the script shows and hides
Elements == {"uploadArea", "fileInfo", "progressSection", "downloadSection", "errorMessage"}

\* a fetch that convertFile has not made
NewFetch == [pc |-> "new", file |-> Null]

\* the page when DOMContentLoaded has run the script: no file, no URL, the
\* upload area displayed and the Convert button disabled
ClientInit ==
    /\ selectedFile = Null
    /\ downloadUrl = Null
    /\ convertDisabled = TRUE
    /\ display = [e \in Elements |-> e = "uploadArea"]
    /\ fetches = [c \in Fetches |-> NewFetch]
    /\ location = Null

\* no document yet
NotBuilt == [text |-> <<>>, name |-> <<>>, doc |-> <<>>]

TextIdle ==
    /\ input = Undefined
    /\ cleaned = <<>>
    /\ recleaned = <<>>
    /\ tpc = "idle"
    /\ built = NotBuilt

\* a request that has not arrived
NewRequest ==
    [pc |-> "new", upload |-> NoFile, file |-> None,
     tempFilePath |-> None, outputFileName |-> None, extracted |-> "no",
     extractedText |-> <<>>, error |-> "none", status |-> 0, body |-> "none",
     downloadUrl |-> None, sendThrew |-> FALSE, cleanup |-> "none",
     originalname |-> None, doc |-> <<>>]

\* a download request that has not arrived
NewDownload ==
    [pc |-> "new", filename |-> None, filePath |-> None, status |-> 0,
     body |-> "none", cleanup |-> "none"]

ServerInit ==
    /\ now = 0
    /\ req = [r \in Reqs |-> NewRequest]
    /\ uploads = {}
    /\ output = {}
    /\ timers = {}
    /\ isShuttingDown = FALSE
    /\ forceArmed = 0
    /\ exitCode = -1
    /\ dl = [d \in Dls |-> NewDownload]
    /\ index = [i \in Idxs |-> 0]
    /\ gone = {}

TextInit ==
    /\ input \in TextInputs
    /\ cleaned = <<>>
    /\ recleaned = <<>>
    /\ tpc = "start"
    /\ built = NotBuilt
    /\ ServerInit
    /\ EarlierInit
    /\ ClientInit

\* extractedText = cleanText(pdfData.text)
Clean ==
    /\ tpc = "start"
    /\ cleaned' = cleanText(input)
    /\ tpc' = "once"
    /\ UNCHANGED <<input, recleaned, built, serverVars, webVars, gone, earlierVars, clientVars>>

\* the normalizer applied to its own output
CleanAgain ==
    /\ tpc = "once"
    /\ recleaned' = cleanText(Str(cleaned))
    /\ tpc' = "twice"
    /\ UNCHANGED <<input, cleaned, built, serverVars, webVars, gone, earlierVars, clientVars>>

\* the document built for the text of a successful extraction
Assemble ==
    /\ tpc = "twice"
    /\ \E originalname \in OriginalNames :
          built' = [text |-> cleaned, name |-> originalname,
                    doc |-> BuildDocument(cleaned, originalname)]
    /\ tpc' = "built"
    /\ UNCHANGED <<input, cleaned, recleaned, serverVars, webVars, gone, earlierVars, clientVars>>

\* the document built for the text of a failed extraction, whose error
\* message is the input
AssembleFallback ==
    /\ tpc = "start"
    /\ input.type = "string"
    /\ \E originalname \in OriginalNames :
          built' = [text |-> ExtractionFallback(input.str), name |-> originalname,
                    doc |-> BuildDocument(ExtractionFallback(input.str), originalname)]
    /\ tpc' = "built"
    /\ UNCHANGED <<input, cleaned, recleaned, serverVars, webVars, gone, earlierVars, clientVars>>

\* the normalizer of the earlier revision; on a value that is neither falsy
\* nor a string text.replace is not a function
CleanEarlier ==
    /\ tpc = "start"
    /\ Falsy(input) \/ input.type = "string"
    /\ cleaned' = cleanTextEarlier(input)
    /\ tpc' = "earlier"
    /\ UNCHANGED <<input, recleaned, built, serverVars, webVars, gone, earlierVars, clientVars>>

\* the normalizer of the earlier revision applied to its own output
CleanEarlierAgain ==
    /\ tpc = "earlier"
    /\ recleaned' = cleanTextEarlier(Str(cleaned))
    /\ tpc' = "earlier twice"
    /\ UNCHANGED <<input, cleaned, built, serverVars, webVars, gone, earlierVars, clientVars>>

TextNext ==
    \/ Clean
    \/ CleanAgain
    \/ Assemble
    \/ AssembleFallback
    \/ CleanEarlier
    \/ CleanEarlierAgain

TextSpec == TextInit /\ [][TextNext]_vars

(***************************************************************************)
(* The server: responses.                                                  *)
(***************************************************************************)
Running == exitCode = -1

\* res.headersSent
HeadersSent(rq) == rq.status # 0

\* res.status(status).json(...): sends the response, or throws
\* ERR_HTTP_HEADERS_SENT when one was sent before
SendJson(rq, status, body, url) ==
    IF HeadersSent(rq)
    THEN [rq EXCEPT !.sendThrew = TRUE]
    ELSE [rq EXCEPT !.status = status, !.body = body, !.downloadUrl = url]

\* a gracefulShutdown that sets the flag and arms no timer
GracefulShutdownUnarmed ==
    /\ isShuttingDown' = TRUE
    /\ forceArmed' = forceArmed

\* the globals after gracefulShutdown(signal) returns: every call passes a
\* callback to server.close and arms a 10 s timer of its own (the count of the
\* calls stops at MaxShutdowns)
GracefulShutdown ==
    /\ isShuttingDown' = TRUE
    /\ forceArmed' = IF forceArmed < MaxShutdowns THEN forceArmed + 1 ELSE forceArmed

(***************************************************************************)
(* POST /convert.                                                          *)
(***************************************************************************)
\* the catch block and the finally block, for the error thrown in the try block
CatchFinally(rq, error) ==
    [SendJson(rq, CatchStatus(error), CatchMessage(error), None)
        EXCEPT !.pc = "caught", !.error = error]

\* a finally block that schedules the cleanup on the success path only
FinallyTimersOnSuccess(r, rq) ==
    IF rq.tempFilePath # None /\ rq.pc # "caught"
    THEN timers \cup {[kind |-> "temp", owner |-> r, path |-> rq.tempFilePath, delay |-> TempRetention]}
    ELSE timers

\* the timers after the finally block
FinallyTimers(r, rq) ==
    IF rq.tempFilePath # None
    THEN timers \cup {[kind |-> "temp", owner |-> r, path |-> rq.tempFilePath, delay |-> TempRetention]}
    ELSE timers

\* the request arrives: the timeout middleware arms the 30 s timer, then the gate
Receive(r) ==
    /\ Running
    /\ req[r].pc = "new"
    /\ req' = [req EXCEPT ![r] =
                 IF isShuttingDown
                 THEN [SendJson(@, 503, "Server is shutting down", None) EXCEPT !.pc = "refused"]
                 ELSE [@ EXCEPT !.pc = "uploading"]]
    /\ UNCHANGED <<now, uploads, output, timers, isShuttingDown, forceArmed, exitCode, textVars, webVars, gone, earlierVars, clientVars>>

\* the try block from createWriteStream on, for the extracted text; the officegen
\* calls before it throw when ~buildOk, and the stream opens its file when openOk
BuildAndGenerate(r, rq, buildOk, openOk) ==
    LET after == IF ~buildOk THEN CatchFinally(rq, "INTERNAL")
                 ELSE [rq EXCEPT !.pc = IF openOk THEN "writing" ELSE "unopened",
                                 !.doc = BuildDocument(rq.extractedText, rq.originalname)]
    IN  /\ req' = [req EXCEPT ![r] = after]
        /\ output' = IF buildOk /\ openOk THEN output \cup {<<rq.outputFileName, r>>} ELSE output
        /\ timers' = FinallyTimers(r, after)
        /\ gone' = IF buildOk /\ openOk
                   THEN {g \in gone : g[1] # rq.outputFileName}
                   ELSE gone

\* multer has consumed the body and calls the callback of upload.single('pdfFile'),
\* which runs up to the await of pdfParse (or, when readFileSync throws, through
\* the finally block). An admitted file is in uploadsDir under the name the
\* storage drew for it; a rejected upload leaves no file (multer removes it) and
\* req.file unset. The upload is short: its name carries the clock value of the
\* callback.
UploadDone(r) ==
    /\ Running
    /\ req[r].pc = "uploading"
    /\ \E up \in Uploads, ioError \in BOOLEAN, rnd \in 0..MaxRand, readOk \in BOOLEAN,
          message \in ErrorMessages, buildOk \in BOOLEAN, openOk \in BOOLEAN,
          originalname \in UploadNames :
          LET uploadError == UploadError(up.mimetype, up.size, up.nfiles, ioError)
              sent == [req[r] EXCEPT !.upload = up]
              path == UploadFileName(now, rnd)
              admitted == [sent EXCEPT !.file = path, !.tempFilePath = path,
                                       !.originalname = originalname,
                                       !.outputFileName = OutputFileName(now)]
          IN  IF uploadError # "none"
              THEN /\ req' = [req EXCEPT ![r] = CatchFinally(sent, uploadError)]
                   /\ UNCHANGED <<uploads, output, timers, gone>>
              ELSE IF up.nfiles = 0
              THEN /\ req' = [req EXCEPT ![r] = CatchFinally(sent, "No file uploaded")]
                   /\ UNCHANGED <<uploads, output, timers, gone>>
              ELSE /\ uploads' = uploads \cup {path}
                   /\ IF readOk
                      THEN /\ req' = [req EXCEPT ![r] = [admitted EXCEPT !.pc = "parsing"]]
                           /\ UNCHANGED <<output, timers, gone>>
                      ELSE BuildAndGenerate(r,
                              [admitted EXCEPT !.extracted = "failed",
                                               !.extractedText = ExtractionFallback(message)],
                              buildOk, openOk)
    /\ UNCHANGED <<now, isShuttingDown, forceArmed, exitCode, textVars, webVars, earlierVars, clientVars>>

\* pdfParse settles: the rest of the try block, and the finally block
ParseDone(r) ==
    /\ Running
    /\ req[r].pc = "parsing"
    /\ \E parseOk \in BOOLEAN, text \in PdfTexts, message \in ErrorMessages,
          buildOk \in BOOLEAN, openOk \in BOOLEAN :
          BuildAndGenerate(r,
              IF parseOk
              THEN [req[r] EXCEPT !.extracted = "yes", !.extractedText = cleanText(text)]
              ELSE [req[r] EXCEPT !.extracted = "failed",
                                  !.extractedText = ExtractionFallback(message)],
              buildOk, openOk)
    /\ UNCHANGED <<now, uploads, isShuttingDown, forceArmed, exitCode, textVars, webVars, earlierVars, clientVars>>

\* output.on('close'): the success response; res.json throwing in this callback
\* is an uncaught exception, whose handler calls gracefulShutdown
WriteClose(r) ==
    /\ Running
    /\ req[r].pc = "writing"
    /\ req' = [req EXCEPT ![r] =
                 [SendJson(@, 200, "success", DownloadUrl(@.outputFileName))
                     EXCEPT !.pc = "closed"]]
    /\ IF HeadersSent(req[r])
       THEN GracefulShutdown
       ELSE UNCHANGED <<isShuttingDown, forceArmed>>
    /\ UNCHANGED <<now, uploads, output, timers, exitCode, textVars, webVars, gone, earlierVars, clientVars>>

\* output.on('error'): the handler throws in the stream's callback, which is an
\* uncaught exception; 'close' is not emitted after a throwing 'error' listener
WriteError(r) ==
    /\ Running
    /\ req[r].pc \in {"writing", "unopened"}
    /\ req' = [req EXCEPT ![r] = [@ EXCEPT !.pc = "errored", !.error = "Failed to write document"]]
    /\ GracefulShutdown
    /\ UNCHANGED <<now, uploads, output, timers, exitCode, textVars, webVars, gone, earlierVars, clientVars>>

\* the callback of res.setTimeout(30000, ...) on a request not yet answered
Timeout(r) ==
    /\ Running
    /\ req[r].pc \in {"uploading", "parsing", "writing", "unopened", "errored"}
    /\ ~HeadersSent(req[r])
    /\ req' = [req EXCEPT ![r] = SendJson(@, 408, "Request timeout", None)]
    /\ UNCHANGED <<now, uploads, output, timers, isShuttingDown, forceArmed, exitCode, textVars, webVars, gone, earlierVars, clientVars>>

(***************************************************************************)
(* GET /download/:filename and GET /.                                      *)
(***************************************************************************)
DlNames == {OutputFileName(t) : t \in 0..MaxClock} \cup InvalidNames

\* the synchronous part of the handler: the gate, the validation, the existence
\* check, then res.download(filePath, ...) starts the transfer
DownloadHandler(rq, filename) ==
    IF isShuttingDown
    THEN [rq EXCEPT !.pc = "refused", !.filename = filename, !.status = 503,
                    !.body = "Server is shutting down"]
    ELSE IF ~ValidFilename(filename)
    THEN [rq EXCEPT !.pc = "invalid", !.filename = filename, !.status = 400,
                    !.body = "Invalid filename"]
    ELSE IF ~OutputExists(output, filename)
    THEN [rq EXCEPT !.pc = "notfound", !.filename = filename, !.filePath = filename,
                    !.status = 404, !.body = "File not found or expired"]
    ELSE [rq EXCEPT !.pc = "sending", !.filename = filename, !.filePath = filename]

\* how res.download ends: "ok", or with an error before or after the headers
DownloadOutcomes == {"ok", "error", "error after headers"}

\* the request after the callback of res.download
DownloadCallback(rq, outcome) ==
    IF outcome = "ok"
    THEN [rq EXCEPT !.pc = "served", !.status = 200, !.body = "file"]
    ELSE IF outcome = "error"
    THEN [rq EXCEPT !.pc = "failed", !.status = 500, !.body = "Download failed"]
    ELSE [rq EXCEPT !.pc = "failed",
                    !.status = IF @ = 0 THEN 200 ELSE @,
                    !.body = IF @ = "none" THEN "partial file" ELSE @]

\* a callback of res.download that sets the timer whether or not err is set
DownloadTimersAlways(d, filePath, outcome) ==
    timers \cup {[kind |-> "out", owner |-> d, path |-> filePath,
                  delay |-> DownloadRetention]}

\* a callback of res.download that never sets the timer
DownloadTimersNever(d, filePath, outcome) == timers

\* the timers after the callback of res.download
DownloadTimers(d, filePath, outcome) ==
    IF outcome = "ok"
    THEN timers \cup {[kind |-> "out", owner |-> d, path |-> filePath,
                       delay |-> DownloadRetention]}
    ELSE timers

\* the request arrives and the handler runs up to its return
Download(d) ==
    /\ Running
    /\ dl[d].pc = "new"
    /\ \E filename \in DlNames : dl' = [dl EXCEPT ![d] = DownloadHandler(@, filename)]
    /\ UNCHANGED <<serverVars, textVars, index, gone, earlierVars, clientVars>>

\* the transfer ends and res.download calls its callback; once the timeout
\* middleware has answered, send finds the headers sent and reports an error
DownloadDone(d) ==
    /\ Running
    /\ dl[d].pc = "sending"
    /\ \E outcome \in DownloadOutcomes :
          /\ dl[d].status # 0 => outcome = "error after headers"
          /\ dl' = [dl EXCEPT ![d] = DownloadCallback(@, outcome)]
          /\ timers' = DownloadTimers(d, dl[d].filePath, outcome)
    /\ UNCHANGED <<now, req, uploads, output, isShuttingDown, forceArmed, exitCode,
                   textVars, index, gone, earlierVars, clientVars>>

\* the callback of res.setTimeout(30000, ...) on a download not yet answered
DownloadTimeout(d) ==
    /\ Running
    /\ dl[d].pc = "sending"
    /\ dl[d].status = 0
    /\ dl' = [dl EXCEPT ![d] = [@ EXCEPT !.status = 408, !.body = "Request timeout"]]
    /\ UNCHANGED <<serverVars, textVars, index, gone, earlierVars, clientVars>>

\* the status of GET /: express.static, mounted before the routes, answers with
\* public/index.html when that file is there; else the route's gate, then
\* res.sendFile, whose error goes to the error middleware
IndexStatus(indexExists) ==
    IF indexExists THEN 200
    ELSE IF isShuttingDown THEN 503
    ELSE 500

\* a GET / request
Index(i) ==
    /\ Running
    /\ index[i] = 0
    /\ \E indexExists \in BOOLEAN : index' = [index EXCEPT ![i] = IndexStatus(indexExists)]
    /\ UNCHANGED <<serverVars, textVars, dl, gone, earlierVars, clientVars>>

(***************************************************************************)
(* Timers, clock and process.                                              *)
(***************************************************************************)
\* the globals after a timer callback: an exception that escapes it is uncaught
AfterCleanup(outcome) ==
    IF outcome = "threw" THEN GracefulShutdown ELSE UNCHANGED <<isShuttingDown, forceArmed>>

\* setTimeout(() => safeFileCleanup(tempFilePath), 1000) fires
TempCleanup(tm) ==
    /\ Running
    /\ tm \in timers
    /\ tm.kind = "temp"
    /\ \E unlinkOk \in BOOLEAN :
          /\ uploads' = safeFileCleanup(uploads, tm.path, unlinkOk)
          /\ req' = [req EXCEPT ![tm.owner].cleanup = CleanupOutcome(uploads, tm.path, unlinkOk)]
          /\ AfterCleanup(CleanupOutcome(uploads, tm.path, unlinkOk))
    /\ timers' = timers \ {tm}
    /\ UNCHANGED <<now, output, exitCode, textVars, webVars, gone, earlierVars, clientVars>>

\* setTimeout(() => safeFileCleanup(filePath), 120000) fires
OutputCleanup(tm) ==
    /\ Running
    /\ tm \in timers
    /\ tm.kind = "out"
    /\ \E unlinkOk \in BOOLEAN :
          LET outcome == CleanupOutcome(OutputDir(output), tm.path, unlinkOk)
          IN  /\ output' = {p \in output :
                               p[1] \in safeFileCleanup(OutputDir(output), tm.path, unlinkOk)}
              /\ dl' = [dl EXCEPT ![tm.owner].cleanup = outcome]
              /\ gone' = gone \cup {<<tm.path, outcome>>}
              /\ AfterCleanup(outcome)
    /\ timers' = timers \ {tm}
    /\ UNCHANGED <<now, req, uploads, exitCode, textVars, index, earlierVars, clientVars>>

\* a millisecond passes
Tick ==
    /\ Running
    /\ now < MaxClock
    /\ now' = now + 1
    /\ UNCHANGED <<req, uploads, output, timers, isShuttingDown, forceArmed, exitCode, textVars, webVars, gone, earlierVars, clientVars>>

\* SIGTERM, SIGINT or SIGHUP
Signal ==
    /\ Running
    /\ forceArmed < MaxShutdowns
    /\ GracefulShutdown
    /\ UNCHANGED <<now, req, uploads, output, timers, exitCode, textVars, webVars, gone, earlierVars, clientVars>>

\* a request holds its connection open until it is answered
Open(rq) == rq.pc \notin {"new"} /\ ~HeadersSent(rq)

\* the callback of server.close: every connection has ended
ServerClosed ==
    /\ Running
    /\ isShuttingDown
    /\ \A r \in Reqs : ~Open(req[r])
    /\ \A d \in Dls : dl[d].pc # "sending"
    /\ exitCode' = 0
    /\ UNCHANGED <<now, req, uploads, output, timers, isShuttingDown, forceArmed, textVars, webVars, gone, earlierVars, clientVars>>

\* app.listen fails (the port is taken): the server emits 'error' before it
\* accepts a connection, nothing listens for it, the uncaughtException handler
\* calls gracefulShutdown, and server.close hands ERR_SERVER_NOT_RUNNING to its
\* callback on the next tick, which exits with code 1
ListenError ==
    /\ Running
    /\ ~isShuttingDown
    /\ now = 0
    /\ \A r \in Reqs : req[r].pc = "new"
    /\ \A d \in Dls : dl[d].pc = "new"
    /\ \A i \in Idxs : index[i] = 0
    /\ GracefulShutdown
    /\ exitCode' = 1
    /\ UNCHANGED <<now, req, uploads, output, timers, textVars, webVars, gone, earlierVars, clientVars>>

\* the 10 s timer of gracefulShutdown fires
ForceExit ==
    /\ Running
    /\ forceArmed > 0
    /\ exitCode' = 1
    /\ UNCHANGED <<now, req, uploads, output, timers, isShuttingDown, forceArmed, textVars, webVars, gone, earlierVars, clientVars>>

(***************************************************************************)
(* POST /convert of the earlier server revision.                           *)
(***************************************************************************)
\* the error upload.single('pdfFile') passes to next(), "none" when it calls
\* the handler; the earlier revision sets the fileSize limit only
EarlierUploadError(mimetype, size, nfiles, ioError) ==
    IF nfiles = 0 THEN "none"
    ELSE IF mimetype # "application/pdf" THEN "Only PDF files are allowed!"
    ELSE IF size > FileSizeLimit THEN "LIMIT_FILE_SIZE"
    ELSE IF nfiles > 1 THEN "LIMIT_UNEXPECTED_FILE"
    ELSE IF ioError THEN "UPLOAD_IO"
    ELSE "none"

\* the status the error-handling middleware answers with
EarlierErrorStatus(error) ==
    IF error \in {"LIMIT_FILE_SIZE", "LIMIT_UNEXPECTED_FILE"} THEN 400 ELSE 500

\* the handler from the end of the extraction to its return: the document is
\* built (officegen throws when ~buildOk, which the catch block answers), the
\* promise of the write is returned without await, and the finally block
\* unlinks the temporary file
EarlierBuild(rq, extracted, buildOk, unlinkOk) ==
    LET left == [rq EXCEPT !.extracted = extracted,
                           !.tempFile = IF unlinkOk THEN "deleted" ELSE "stored"]
    IN  IF buildOk
        THEN [left EXCEPT !.pc = "writing"]
        ELSE [left EXCEPT !.pc = "caught", !.status = 500,
                          !.body = "Failed to convert PDF to Word"]

\* multer has consumed the body; the handler runs up to the await of pdfParse,
\* or to its return when readFileSync throws
EarlierReceive(e) ==
    /\ ecode = -1
    /\ ereq[e].pc = "new"
    /\ \E up \in Uploads, ioError \in BOOLEAN, readOk \in BOOLEAN, buildOk \in BOOLEAN,
          unlinkOk \in BOOLEAN :
          LET error == EarlierUploadError(up.mimetype, up.size, up.nfiles, ioError)
              sent == [ereq[e] EXCEPT !.upload = up]
              admitted == [sent EXCEPT !.file = TRUE, !.tempFile = "stored"]
          IN  ereq' = [ereq EXCEPT ![e] =
                  IF error # "none"
                  THEN [sent EXCEPT !.pc = "rejected", !.status = EarlierErrorStatus(error),
                                    !.body = error]
                  ELSE IF up.nfiles = 0
                  THEN [sent EXCEPT !.pc = "nofile", !.status = 400,
                                    !.body = "No file uploaded"]
                  ELSE IF readOk
                  THEN [admitted EXCEPT !.pc = "parsing"]
                  ELSE EarlierBuild(admitted, "failed", buildOk, unlinkOk)]
    /\ UNCHANGED <<ecode, textVars, serverVars, webVars, gone, clientVars>>

\* pdfParse settles; the handler runs to its return
EarlierParseDone(e) ==
    /\ ecode = -1
    /\ ereq[e].pc = "parsing"
    /\ \E parseOk \in BOOLEAN, buildOk \in BOOLEAN, unlinkOk \in BOOLEAN :
          ereq' = [ereq EXCEPT ![e] =
                     EarlierBuild(@, IF parseOk THEN "yes" ELSE "failed", buildOk, unlinkOk)]
    /\ UNCHANGED <<ecode, textVars, serverVars, webVars, gone, clientVars>>

\* output.on('close'): resolve(result), then res.json(result)
EarlierWriteClose(e) ==
    /\ ecode = -1
    /\ ereq[e].pc = "writing"
    /\ ereq' = [ereq EXCEPT ![e] = [@ EXCEPT !.pc = "closed", !.status = 200,
                                             !.body = "success"]]
    /\ UNCHANGED <<ecode, textVars, serverVars, webVars, gone, clientVars>>

\* output.on('error'): reject(...), which .catch rethrows. The handler returned
\* the promise from its try block without await, so its catch block is not on
\* the path of the rejection: the promise of the async handler rejects, nothing
\* handles it, and Node raises it as an uncaught exception (the default from
\* Node 15 on) or only warns, as the process is started
EarlierWriteError(e) ==
    /\ ecode = -1
    /\ ereq[e].pc = "writing"
    /\ ereq' = [ereq EXCEPT ![e] = [@ EXCEPT !.pc = "errored"]]
    /\ \E raised \in BOOLEAN : ecode' = IF raised THEN 1 ELSE -1
    /\ UNCHANGED <<textVars, serverVars, webVars, gone, clientVars>>

EarlierNext ==
    \/ \E e \in EarlierReqs : EarlierReceive(e)
    \/ \E e \in EarlierReqs : EarlierParseDone(e)
    \/ \E e \in EarlierReqs : EarlierWriteClose(e)
    \/ \E e \in EarlierReqs : EarlierWriteError(e)

(***************************************************************************)
(* The browser client, public/script.js.  The progress bar's width and    *)
(* text, which the interval timer of convertFile updates, are left out.    *)
(***************************************************************************)
\* the size handleFile refuses above, in bytes
ClientSizeLimit == 10 * 1024 * 1024

\* the files the user picks or drops
ClientFiles ==
    [name : 1..NumFiles, type : {"application/pdf", "text/plain"},
     size : {1, ClientSizeLimit + 1}]

\* data.downloadUrl of the response to fetch c
ResultUrl(c) == [type |-> "string", fetch |-> c]

\* showError(message)
ShowError(d) == [d EXCEPT !["errorMessage"] = TRUE]

\* handleFile(file)
HandleFile(file) ==
    IF file.type # "application/pdf" \/ file.size > ClientSizeLimit
    THEN /\ display' = ShowError(display)
         /\ UNCHANGED <<selectedFile, convertDisabled>>
    ELSE /\ selectedFile' = file
         /\ convertDisabled' = FALSE
         /\ display' = [e \in Elements |-> e = "fileInfo"]

\* the user picks a file in the dialog the upload area opens
SelectFile ==
    /\ display["uploadArea"]
    /\ \E file \in ClientFiles : HandleFile(file)
    /\ UNCHANGED <<downloadUrl, fetches, location, textVars, serverVars, webVars, gone, earlierVars>>

\* the user drops a file on the upload area
DropFile ==
    /\ display["uploadArea"]
    /\ \E file \in ClientFiles :
          IF file.type = "application/pdf"
          THEN HandleFile(file)
          ELSE /\ display' = ShowError(display)
               /\ UNCHANGED <<selectedFile, convertDisabled>>
    /\ UNCHANGED <<downloadUrl, fetches, location, textVars, serverVars, webVars, gone, earlierVars>>

\* the user clicks the remove button of the file info
RemoveFile ==
    /\ display["fileInfo"]
    /\ selectedFile' = Null
    /\ convertDisabled' = TRUE
    /\ display' = [e \in Elements |-> e = "uploadArea"]
    /\ UNCHANGED <<downloadUrl, fetches, location, textVars, serverVars, webVars, gone, earlierVars>>

\* the user clicks the enabled Convert button: convertFile() up to its return
ConvertClick(c) ==
    /\ ~convertDisabled
    /\ selectedFile # Null
    /\ fetches[c].pc = "new"
    /\ \A b \in Fetches : b < c => fetches[b].pc # "new"
    /\ convertDisabled' = TRUE
    /\ display' = [display EXCEPT !["progressSection"] = TRUE, !["errorMessage"] = FALSE,
                                  !["downloadSection"] = FALSE]
    /\ fetches' = [fetches EXCEPT ![c] = [pc |-> "pending", file |-> selectedFile]]
    /\ UNCHANGED <<selectedFile, downloadUrl, location, textVars, serverVars, webVars, gone, earlierVars>>

\* the fetch settles: the then, catch and finally callbacks of convertFile
Response(c) ==
    /\ fetches[c].pc = "pending"
    /\ \E outcome \in {"success", "failure", "network"} :
          IF outcome = "success"
          THEN /\ downloadUrl' = ResultUrl(c)
               /\ fetches' = [fetches EXCEPT ![c].pc = "delay"]
               /\ UNCHANGED display
          ELSE /\ display' = ShowError([display EXCEPT !["progressSection"] = FALSE])
               /\ fetches' = [fetches EXCEPT ![c].pc = "done"]
               /\ UNCHANGED downloadUrl
    /\ convertDisabled' = FALSE
    /\ UNCHANGED <<selectedFile, location, textVars, serverVars, webVars, gone, earlierVars>>

\* the 1 s timer of a successful response fires
ShowDownload(c) ==
    /\ fetches[c].pc = "delay"
    /\ display' = [display EXCEPT !["progressSection"] = FALSE, !["downloadSection"] = TRUE]
    /\ fetches' = [fetches EXCEPT ![c].pc = "done"]
    /\ UNCHANGED <<selectedFile, downloadUrl, convertDisabled, location, textVars, serverVars, webVars, gone, earlierVars>>

\* the user clicks the download button
DownloadClick ==
    /\ display["downloadSection"]
    /\ downloadUrl # Null
    /\ location' = downloadUrl
    /\ UNCHANGED <<selectedFile, downloadUrl, convertDisabled, display, fetches, textVars, serverVars, webVars, gone, earlierVars>>

ClientNext ==
    \/ SelectFile
    \/ DropFile
    \/ RemoveFile
    \/ \E c \in Fetches : ConvertClick(c)
    \/ \E c \in Fetches : Response(c)
    \/ \E c \in Fetches : ShowDownload(c)
    \/ DownloadClick

Init == TextIdle /\ ServerInit /\ EarlierInit /\ ClientInit

ClientSpec == Init /\ [][ClientNext]_vars

EarlierSpec == Init /\ [][EarlierNext]_vars

Next ==
    \/ \E r \in Reqs : Receive(r)
    \/ \E r \in Reqs : UploadDone(r)
    \/ \E r \in Reqs : ParseDone(r)
    \/ \E r \in Reqs : WriteClose(r)
    \/ \E r \in Reqs : WriteError(r)
    \/ \E r \in Reqs : Timeout(r)
    \/ \E tm \in timers : TempCleanup(tm)
    \/ Tick
    \/ Signal
    \/ ListenError
    \/ ServerClosed
    \/ ForceExit

Spec == Init /\ [][Next]_vars

\* a pending timer fires while the process runs
TimerFires(r) == \E tm \in timers : tm.owner = r /\ TempCleanup(tm)

LiveSpec == Init /\ [][Next]_vars /\ \A r \in Reqs : WF_vars(TimerFires(r))

\* a 10 s timer of gracefulShutdown fires unless the process has exited
ShutdownSpec == Init /\ [][Next]_vars /\ WF_vars(ForceExit)

\* the server with downloads and page requests beside the conversions
DlNext ==
    \/ \E r \in DlReqs : Receive(r)
    \/ \E r \in Reqs : UploadDone(r)
    \/ \E r \in Reqs : ParseDone(r)
    \/ \E r \in Reqs : WriteClose(r)
    \/ \E r \in Reqs : WriteError(r)
    \/ \E r \in Reqs : Timeout(r)
    \/ \E d \in Dls : Download(d)
    \/ \E d \in Dls : DownloadDone(d)
    \/ \E d \in Dls : DownloadTimeout(d)
    \/ \E i \in Idxs : Index(i)
    \/ \E tm \in timers : TempCleanup(tm)
    \/ \E tm \in timers : OutputCleanup(tm)
    \/ Tick
    \/ Signal
    \/ ListenError
    \/ ServerClosed
    \/ ForceExit

DlSpec == Init /\ [][DlNext]_vars

(***************************************************************************)
(* Claims about POST /convert.                                             *)
(***************************************************************************)
\* createWriteStream(outputPath) was called for the request
ReachedWriting(rq) == rq.pc \in {"writing", "unopened", "closed", "errored"}

\* C1: whenever the output write stream of a request emits an error, that
\* request is answered with HTTP 500 and a JSON error body
C1_WriteErrorAnswered500 ==
    \A r \in Reqs :
        req[r].pc = "errored" => req[r].status = 500 /\ req[r].body # "none"

\* C2: any two distinct requests that both reach document writing use
\* different output file paths, so that no request writes another request's file
C2_DistinctOutputPaths ==
    \A r1, r2 \in Reqs :
        r1 # r2 /\ ReachedWriting(req[r1]) /\ ReachedWriting(req[r2])
            => /\ req[r1].outputFileName # req[r2].outputFileName
               /\ \A e \in output : e[1] = req[r1].outputFileName => e[2] = r1

\* C3: every error raised inside the pipeline that is not an upload-validation
\* error is answered with HTTP 500, and HTTP 400 is returned only for
\* upload-validation errors
C3_InternalErrorsAnswered500 ==
    \A r \in Reqs :
        req[r].pc = "caught" =>
            /\ req[r].error \notin ValidationErrors => req[r].status = 500
            /\ req[r].status = 400 => req[r].error \in ValidationErrors

\* s occurs in t as a contiguous substring
Embeds(t, s) == \E i \in 1..(Len(t) - Len(s) + 1) : SubSeq(t, i, i + Len(s) - 1) = s

\* the success response of the request
AnsweredSuccess(rq) ==
    /\ rq.status = 200
    /\ rq.body = "success"
    /\ rq.downloadUrl = DownloadUrl(rq.outputFileName)

\* C4, as stated: after a failed extraction the response is HTTP 200 with
\* success:true and a downloadUrl whenever the document write succeeds
C4_SoftFailureAnswered200 ==
    \A r \in Reqs :
        req[r].extracted = "failed" /\ req[r].pc = "closed" => AnsweredSuccess(req[r])

\* C4, amended: a failed extraction does not fail the request: the pipeline goes
\* on to build the document from a non-empty placeholder that embeds the failure
\* message (the only error it can then catch is one thrown while building), and
\* when the write closes the response is HTTP 200 with success:true and the
\* downloadUrl, unless the 30 s timeout answered the request before the close
C4_SoftFailure ==
    \A r \in Reqs :
        req[r].extracted = "failed" =>
            /\ req[r].extractedText # <<>>
            /\ \E m \in ErrorMessages : Embeds(req[r].extractedText, m)
            /\ ReachedWriting(req[r]) \/ (req[r].pc = "caught" /\ req[r].error = "INTERNAL")
            /\ req[r].pc = "closed" =>
                  \/ AnsweredSuccess(req[r])
                  \/ req[r].status = 408 /\ req[r].sendThrew

C4_Witness ==
    \E r \in Reqs :
        req[r].extracted = "failed" /\ req[r].pc = "closed" /\ AnsweredSuccess(req[r])

\* the upload is one the gatekeeper must reject: no file, a declared type other
\* than application/pdf, a file over 10 MB, or more than one file
InvalidUpload(up) ==
    \/ up.nfiles = 0
    \/ up.mimetype # "application/pdf"
    \/ up.size > 10 * 1024 * 1024
    \/ up.nfiles > 1

\* the upload middleware has handed the request to the handler's callback
Handled(rq) == rq.pc \notin {"new", "refused", "uploading"}

\* no extraction was run, no output document was created and no success
\* response was sent for request r
NothingConverted(r) ==
    /\ req[r].extracted = "no"
    /\ req[r].outputFileName = None
    /\ \A e \in output : e[2] # r
    /\ req[r].status # 200
    /\ req[r].body # "success"

\* C5, as stated: a request with an invalid upload is answered with HTTP 400
\* and a JSON error, and nothing is converted for it
C5_InvalidUploadAnswered400 ==
    \A r \in Reqs :
        Handled(req[r]) /\ InvalidUpload(req[r].upload) =>
            /\ req[r].status = 400
            /\ req[r].body # "none"
            /\ NothingConverted(r)

\* C5, amended: a request with an invalid upload ends in the catch block, which
\* answers HTTP 400 with a JSON error unless the 30 s timeout has answered the
\* request with 408 before; nothing is converted for it
C5_InvalidUploadRejected ==
    \A r \in Reqs :
        Handled(req[r]) /\ InvalidUpload(req[r].upload) =>
            /\ req[r].pc = "caught"
            /\ req[r].error \in ValidationErrors
            /\ \/ req[r].status = 400 /\ req[r].body = CatchMessage(req[r].error)
               \/ req[r].status = 408 /\ req[r].sendThrew
            /\ NothingConverted(r)

C5_Witness ==
    \E r \in Reqs :
        /\ req[r].pc = "caught"
        /\ req[r].upload.mimetype = "image/png"
        /\ req[r].status = 400

\* the handler of request r has left its try/catch/finally with an admitted upload
ExitedWithUpload(r) ==
    /\ req[r].file # None
    /\ ReachedWriting(req[r]) \/ req[r].pc = "caught"

\* the deletion of r's temporary file is pending
CleanupScheduled(r) ==
    \E tm \in timers : tm.kind = "temp" /\ tm.owner = r /\ tm.path = req[r].tempFilePath

\* the deletion is never scheduled before the extraction step has read the file,
\* and it is scheduled (or has run) on every exit path of the handler
C6_ScheduledOnEveryExit ==
    \A r \in Reqs :
        /\ (\E tm \in timers : tm.owner = r) => req[r].extracted # "no" /\ CleanupScheduled(r)
        /\ ExitedWithUpload(r) => CleanupScheduled(r) \/ req[r].cleanup # "none"
        /\ req[r].cleanup # "none" => ExitedWithUpload(r)

\* C6, as stated: the deletion is scheduled on every exit path and never before
\* the extraction; if the process keeps running the temporary file eventually no
\* longer exists
C6_TempFileEventuallyGone ==
    /\ []C6_ScheduledOnEveryExit
    /\ \A r \in Reqs :
          ExitedWithUpload(r) ~> (~Running \/ req[r].tempFilePath \notin uploads)

\* C6, amended: the deletion is scheduled on every exit path and never before
\* the extraction; if the process keeps running the timer eventually fires and
\* safeFileCleanup runs, after which the file no longer exists unless unlinkSync
\* threw (the error is logged and the file stays)
C6_TempCleanup ==
    /\ []C6_ScheduledOnEveryExit
    /\ \A r \in Reqs : ExitedWithUpload(r) ~> (~Running \/ req[r].cleanup # "none")
    /\ [][\A r \in Reqs :
            req[r].cleanup = "none" /\ req'[r].cleanup \in {"deleted", "absent"}
                => req[r].tempFilePath \notin uploads']_vars

C6_Witness ==
    \E r \in Reqs : req[r].pc = "caught" /\ req[r].file # None /\ req[r].cleanup = "deleted"

(***************************************************************************)
(* Claims about cleanText, checked under TextSpec.                         *)
(***************************************************************************)
Placeholders == {NoTextPlaceholder, EmptyPlaceholder}

\* C7: cleanText returns a non-empty string for every input
C7_NeverEmpty ==
    /\ tpc \in {"once", "twice"} => cleaned # <<>>
    /\ tpc = "twice" => recleaned # <<>>

C7_Witness ==
    /\ tpc = "once"
    /\ input.type = "string"
    /\ input.str # <<>>
    /\ \A i \in 1..Len(input.str) : IsSpace(input.str[i])
    /\ cleaned = EmptyPlaceholder

\* the positions of the non-whitespace characters of s
NonSpaceAt(s) == {i \in 1..Len(s) : ~IsSpace(s[i])}

\* the position of the k-th non-whitespace character of s
NthNonSpace(s, k) ==
    CHOOSE i \in NonSpaceAt(s) : Cardinality({j \in NonSpaceAt(s) : j <= i}) = k

\* C8: whenever two non-whitespace characters of the input are separated by a
\* run of three or more line breaks (after \r\n and \r are normalised to \n),
\* they are separated by exactly two line breaks in the output
C8_BlankLinesCollapseToOne ==
    tpc = "once" /\ input.type = "string" =>
        LET norm == ReplaceCR(ReplaceCRLF(input.str))
            n == Cardinality(NonSpaceAt(norm))
        IN  \A k \in 1..(n - 1) :
                LET p == NthNonSpace(norm, k)
                    q == NthNonSpace(norm, k + 1)
                IN  (q - p - 1 >= 3 /\ \A j \in (p + 1)..(q - 1) : norm[j] = "\n") =>
                        /\ Cardinality(NonSpaceAt(cleaned)) = n
                        /\ SubSeq(cleaned, NthNonSpace(cleaned, k) + 1,
                                  NthNonSpace(cleaned, k + 1) - 1) = <<"\n", "\n">>

\* C9: cleanText is idempotent
C9_Idempotent == tpc = "twice" => recleaned = cleaned

C9_Witness ==
    /\ tpc = "twice"
    /\ input.type = "string"
    /\ cleaned # input.str
    /\ cleaned \notin Placeholders
    /\ recleaned = cleaned

\* C10: the output of cleanText contains no carriage return, no run of three
\* or more line breaks and no run of two or more space or tab characters
C10_OutputShape ==
    tpc \in {"once", "twice"} =>
        /\ \A i \in 1..Len(cleaned) : cleaned[i] # "\r"
        /\ \A i \in 1..(Len(cleaned) - 2) :
              ~(cleaned[i] = "\n" /\ cleaned[i + 1] = "\n" /\ cleaned[i + 2] = "\n")
        /\ \A i \in 1..(Len(cleaned) - 1) :
              ~(cleaned[i] \in {" ", "\t"} /\ cleaned[i + 1] \in {" ", "\t"})

C10_Witness ==
    /\ tpc = "once"
    /\ input.type = "string"
    /\ \E i \in 1..Len(input.str) : input.str[i] = "\r"
    /\ \E i \in 1..(Len(input.str) - 1) :
          input.str[i] \in {" ", "\t"} /\ input.str[i + 1] \in {" ", "\t"}
    /\ cleaned \notin Placeholders

(***************************************************************************)
(* Claims about GET /download/:filename and the shutdown gate.             *)
(***************************************************************************)
\* the names of the form converted-<digits>.docx, with one digit or more
ConvertedName(s) ==
    /\ Len(s) > Len(ConvertedPrefix) + Len(DocxSuffix)
    /\ \A i \in 1..Len(s) :
          IF i <= Len(ConvertedPrefix) THEN s[i] = ConvertedPrefix[i]
          ELSE IF i > Len(s) - Len(DocxSuffix)
          THEN s[i] = DocxSuffix[i - (Len(s) - Len(DocxSuffix))]
          ELSE s[i] \in {"0", "1", "2", "3", "4", "5", "6", "7", "8", "9"}

\* a download request the handler has run for
Arrived(rq) == rq.pc # "new"

\* C11: GET /download/:filename rejects every filename that is not of the form
\* converted-<digits>.docx before any file-system access: for such a request no
\* path is handed to the file system, no file is served and no deletion timer is
\* set, so every path the handler reads or deletes is a converted-<digits>.docx
\* of outputDir
C11_InvalidNamesRejected ==
    /\ \A d \in Dls :
          Arrived(dl[d]) /\ ~ConvertedName(dl[d].filename) =>
              /\ dl[d].pc \in {"invalid", "refused"}
              /\ dl[d].status \in {400, 503}
              /\ dl[d].filePath = None
              /\ \A tm \in timers : ~(tm.kind = "out" /\ tm.owner = d)
    /\ \A d \in Dls : dl[d].filePath # None => ConvertedName(dl[d].filePath)
    /\ \A tm \in timers : tm.kind = "out" => ConvertedName(tm.path)

C11_Witness ==
    \E d \in Dls :
        /\ dl[d].pc = "invalid"
        /\ dl[d].status = 400
        /\ dl[d].filename = <<".", ".", "/">> \o OutputFileName(0)
        /\ OutputExists(output, OutputFileName(0))

\* the step in which the handler runs for download request d
Handles(d) == dl[d].pc = "new" /\ dl'[d].pc # "new"

\* the step in which res.download reports success for download request d
Completes(d) == dl[d].pc = "sending" /\ dl'[d].pc = "served"

\* C12 (as claimed): after a GET /download of an existing output file completes
\* without error, deletion of that file is scheduled 120 s later; once that
\* timer has fired, and no new file of the same name was written, every later
\* GET /download of the same filename is answered 404
C12_ExpiredIsNotFound ==
    [][\A d \in Dls :
          /\ Completes(d) =>
                [kind |-> "out", owner |-> d, path |-> dl[d].filename, delay |-> 120000]
                    \in timers'
          /\ Handles(d) /\ (\E g \in gone : g[1] = dl'[d].filename) =>
                dl'[d].status = 404]_vars

\* C12 (amended): after a GET /download of an existing output file completes
\* without error, deletion of that file is scheduled 120 s later; once such a
\* timer has fired without unlinkSync throwing, and no new file of the same
\* name was written, every later GET /download of the same filename that is not
\* refused by the shutdown gate is answered 404
C12_Expiry ==
    [][\A d \in Dls :
          /\ Completes(d) =>
                [kind |-> "out", owner |-> d, path |-> dl[d].filename, delay |-> 120000]
                    \in timers'
          /\ /\ Handles(d)
             /\ \E g \in gone : g[1] = dl'[d].filename /\ g[2] # "failed"
             /\ ~isShuttingDown
             => dl'[d].status = 404 /\ dl'[d].pc = "notfound"]_vars

C12_Witness ==
    \E d, e \in Dls :
        /\ dl[d].pc = "served"
        /\ dl[d].cleanup = "deleted"
        /\ dl[e].filename = dl[d].filename
        /\ dl[e].pc = "notfound"
        /\ dl[e].status = 404
        /\ <<dl[d].filename, "deleted">> \in gone

\* C13 (as claimed): GET /download/<name> is answered 404 with a JSON error for
\* every name for which no generated output file exists, whatever the form of
\* the name
C13_AbsentIsNotFound ==
    [][\A d \in Dls :
          Handles(d) /\ dl'[d].filename \notin OutputDir(output) =>
              dl'[d].status = 404 /\ dl'[d].body = "File not found or expired"]_vars

\* C13 (amended): while the server is not shutting down, GET /download/<name> is
\* answered 404 with a JSON error for every name of the form
\* converted-<digits>.docx for which no generated output file exists, and 400
\* with a JSON error for every name of another form
C13_AbsentOrInvalid ==
    [][\A d \in Dls :
          Handles(d) /\ dl'[d].filename \notin OutputDir(output) /\ ~isShuttingDown =>
              IF ConvertedName(dl'[d].filename)
              THEN /\ dl'[d].status = 404
                   /\ dl'[d].body = "File not found or expired"
                   /\ dl'[d].pc = "notfound"
              ELSE /\ dl'[d].status = 400
                   /\ dl'[d].body = "Invalid filename"
                   /\ dl'[d].pc = "invalid"]_vars

C13_Witness ==
    \E d \in Dls :
        /\ dl[d].pc = "notfound"
        /\ dl[d].status = 404
        /\ dl[d].filename = OutputFileName(1)
        /\ gone = {}
        /\ \A r \in Reqs : req[r].outputFileName # OutputFileName(1)

\* download request d asks, in this step, for the file a success response of
\* POST /convert named, and no deletion timer has fired for that file
HandlesHandedOut(d) ==
    /\ Handles(d)
    /\ \E r \in Reqs :
          /\ AnsweredSuccess(req[r])
          /\ req[r].downloadUrl = <<"/", "d", "o", "w", "n", "l", "o", "a", "d", "/">>
                                      \o dl'[d].filename
    /\ \A g \in gone : g[1] # dl'[d].filename

\* the success response is sent by the close handler of the stream the request
\* opened, and names the file that stream was opened with, which has the form
\* converted-<digits>.docx
SuccessNamesWrittenFile ==
    \A r \in Reqs :
        req[r].status = 200 =>
            /\ req[r].pc = "closed"
            /\ req[r].body = "success"
            /\ req[r].downloadUrl = <<"/", "d", "o", "w", "n", "l", "o", "a", "d", "/">>
                                        \o req[r].outputFileName
            /\ ConvertedName(req[r].outputFileName)

\* C14 (as claimed): a success response of POST /convert is sent only after the
\* close event of the output stream, its downloadUrl is /download/<name> with
\* <name> of the form converted-<digits>.docx and the file this request wrote;
\* as long as no deletion timer for that file has fired, a GET on that
\* downloadUrl passes the filename validation and is served, never answered
\* 400 or 404
C14_HandedOutIsServed ==
    /\ [](SuccessNamesWrittenFile)
    /\ [][\A d \in Dls :
             HandlesHandedOut(d) =>
                 dl'[d].pc = "sending" /\ dl'[d].status \notin {400, 404}]_vars

\* C14 (amended): as C14, but the GET is served only while the server is not
\* shutting down; after shutdown began it is answered 503, and never 400 or 404
C14_HandedOutIsFound ==
    /\ [](SuccessNamesWrittenFile)
    /\ [][\A d \in Dls :
             HandlesHandedOut(d) =>
                 /\ dl'[d].status \notin {400, 404}
                 /\ dl'[d].filename \in OutputDir(output)
                 /\ IF isShuttingDown
                    THEN dl'[d].pc = "refused" /\ dl'[d].status = 503
                    ELSE dl'[d].pc = "sending"]_vars

C14_Witness ==
    \E r \in Reqs, d \in Dls :
        /\ AnsweredSuccess(req[r])
        /\ req[r].pc = "closed"
        /\ dl[d].filename = req[r].outputFileName
        /\ dl[d].pc = "served"
        /\ gone = {}

\* the step in which the handler of POST /convert request r starts
Arrives(r) == req[r].pc = "new" /\ req'[r].pc # "new"

\* C15: isShuttingDown is never reset once set, and every POST /convert, GET
\* /download/:filename and GET / request handled after it is set is answered 503
\* without admitting new work: no upload is stored, no output file is written
\* or read, and no deletion timer is scheduled
C15_GateRefuses ==
    [][isShuttingDown =>
          /\ isShuttingDown'
          /\ \A r \in Reqs :
                Arrives(r) =>
                    /\ req'[r].status = 503
                    /\ req'[r].file = None
                    /\ uploads' = uploads /\ output' = output /\ timers' = timers
          /\ \A d \in Dls :
                Handles(d) =>
                    /\ dl'[d].status = 503
                    /\ dl'[d].filePath = None
                    /\ uploads' = uploads /\ output' = output /\ timers' = timers
          /\ \A i \in Idxs :
                index[i] = 0 /\ index'[i] # 0 =>
                    /\ index'[i] = 503
                    /\ uploads' = uploads /\ output' = output /\ timers' = timers]_vars

(***************************************************************************)
(* Claims about the request timeout and the responses.                     *)
(***************************************************************************)
\* the response of the timeout middleware, which nothing sent later replaces
TimeoutAnswer ==
    /\ \A r \in Reqs : req[r].status = 408 => req[r].body = "Request timeout"
    /\ \A r \in Reqs :
          req[r].status = 408 /\ ExitedWithUpload(r) =>
              CleanupScheduled(r) \/ req[r].cleanup # "none"

TimeoutAnswerStays ==
    \A r \in Reqs : req[r].status = 408 => req'[r].status = 408 /\ req'[r].body = req[r].body

\* C16 (as claimed): a POST /convert request not yet answered when the 30 s
\* timeout fires is answered 408 with a JSON timeout error, and the deletion of
\* its temporary file still eventually fires once the pipeline step of the
\* handler has returned
C16_TimedOutCleanupFires ==
    /\ []TimeoutAnswer
    /\ [][TimeoutAnswerStays]_vars
    /\ \A r \in Reqs :
          (req[r].status = 408 /\ ExitedWithUpload(r)) ~> (req[r].cleanup # "none")

\* C16 (amended): as C16, but the deletion fires only if the process is still
\* running when the timer is due
C16_TimedOutCleanup ==
    /\ []TimeoutAnswer
    /\ [][TimeoutAnswerStays]_vars
    /\ \A r \in Reqs :
          (req[r].status = 408 /\ ExitedWithUpload(r))
              ~> (~Running \/ req[r].cleanup # "none")

C16_Witness ==
    \E r \in Reqs :
        /\ req[r].status = 408
        /\ req[r].pc = "closed"
        /\ req[r].cleanup = "deleted"
        /\ req[r].tempFilePath \notin uploads

\* C20: at most one response is sent or attempted for a request: on no
\* interleaving of the timeout callback, the close and error callbacks of the
\* output stream and the catch block does a handler call res.json or
\* res.status on a response whose headers were already sent
C20_SingleResponse == \A r \in Reqs : ~req[r].sendThrew

(***************************************************************************)
(* Claims about the Retention Manager.                                     *)
(***************************************************************************)
\* a step in which the callback of timer tm runs
Fires(tm) == tm \in timers /\ tm \notin timers'

\* what a run of safeFileCleanup(path) may do to a directory: delete the file
\* when it is there (or leave it, when unlinkSync fails), and nothing else
BestEffort(before, after, path, outcome) ==
    /\ outcome \in {"deleted", "absent", "failed"}
    /\ outcome = "deleted" <=> (path \in before /\ after = before \ {path})
    /\ outcome = "absent" <=> path \notin before
    /\ outcome # "deleted" => after = before

\* C17: safeFileCleanup is best-effort and never raises: it deletes the file if
\* it exists, does nothing when the file is already gone, and swallows a failing
\* unlink; several deletion timers pending for one path are harmless, the
\* first deletes the file and the later ones change nothing
C17_BestEffortCleanup ==
    [][\A tm \in timers :
          Fires(tm) =>
              /\ isShuttingDown' = isShuttingDown
              /\ forceArmed' = forceArmed
              /\ exitCode' = exitCode
              /\ timers' = timers \ {tm}
              /\ IF tm.kind = "out"
                 THEN /\ BestEffort(OutputDir(output), OutputDir(output'), tm.path,
                                    dl'[tm.owner].cleanup)
                      /\ uploads' = uploads
                 ELSE /\ BestEffort(uploads, uploads', tm.path, req'[tm.owner].cleanup)
                      /\ output' = output]_vars

C17_Witness ==
    \E d, e \in Dls :
        /\ d # e
        /\ dl[d].filename = dl[e].filename
        /\ dl[d].cleanup = "deleted"
        /\ dl[e].cleanup = "absent"
        /\ ~isShuttingDown
        /\ Running

\* the pending deletions of output files were set by downloads of the same
\* name that completed without error, and a file no completed download named
\* is still there
OnlyDownloadsExpire ==
    /\ \A tm \in timers :
          tm.kind = "out" =>
              /\ dl[tm.owner].pc = "served"
              /\ dl[tm.owner].status = 200
              /\ dl[tm.owner].filename = tm.path
    /\ \A r \in Reqs :
          /\ req[r].pc \in {"writing", "closed"}
          /\ ~\E d \in Dls : dl[d].pc = "served" /\ dl[d].filename = req[r].outputFileName
          => <<req[r].outputFileName, r>> \in output

\* C18: an output file is deleted only by a timer that a GET /download of that
\* same filename set when it completed without error: POST /convert, a failed
\* or rejected download, the request timeout and the cleanup of temporary files
\* neither delete an output file nor schedule its deletion, so a document that
\* is never downloaded is never deleted
C18_OnlyDownloadsExpire ==
    /\ []OnlyDownloadsExpire
    /\ [][/\ \A p \in output \ output' :
                \E tm \in timers :
                    /\ Fires(tm)
                    /\ tm.kind = "out"
                    /\ tm.path = p[1]
                    /\ dl[tm.owner].pc = "served"
          /\ \A tm \in timers' \ timers :
                tm.kind = "out" => Completes(tm.owner) /\ tm.path = dl[tm.owner].filename]_vars

C18_Witness ==
    \E d, e \in Dls :
        /\ dl[d].pc = "failed"
        /\ dl[d].status = 500
        /\ dl[e].pc = "served"
        /\ dl[e].filename = dl[d].filename
        /\ dl[e].cleanup = "deleted"
        /\ timers = {}
        /\ output = {}

(***************************************************************************)
(* Claims about the Document Builder.                                      *)
(***************************************************************************)
\* s has a blank-line boundary, two line feeds in a row
HasBoundary(s) == \E i \in 1..(Len(s) - 1) : s[i] = "\n" /\ s[i + 1] = "\n"

RECURSIVE JoinBlocks(_)
JoinBlocks(blocks) ==
    IF Len(blocks) = 1 THEN blocks[1]
    ELSE blocks[1] \o <<"\n", "\n">> \o JoinBlocks(Tail(blocks))

\* blocks are the pieces of text between its blank-line boundaries, taken from
\* the left: put back together with the boundaries they give the text, no
\* block holds a boundary, and none but the last ends where one could start
BlocksOf(text, blocks) ==
    /\ Len(blocks) >= 1
    /\ JoinBlocks(blocks) = text
    /\ \A i \in 1..Len(blocks) : ~HasBoundary(blocks[i])
    /\ \A i \in 1..(Len(blocks) - 1) :
          blocks[i] = <<>> \/ blocks[i][Len(blocks[i])] # "\n"

\* the text of a block with the white space at its two ends removed
Trimmed(block) ==
    LET inner == {i \in 1..Len(block) : block[i] \notin {" ", "\t", "\r", "\n"}}
    IN  IF inner = {} THEN <<>>
        ELSE SubSeq(block,
                    CHOOSE i \in inner : \A j \in inner : i <= j,
                    CHOOSE i \in inner : \A j \in inner : j <= i)

\* C19: the document is, in order, a title paragraph, a subtitle paragraph
\* naming the original file, a spacer paragraph, and then one paragraph for
\* each block of the text between blank-line boundaries, in the order of the
\* blocks: a text paragraph holding the trimmed block when the block is not
\* blank, a spacer paragraph when it is
C19_DocumentShape ==
    tpc = "built" =>
        LET doc == built.doc
            blocks == Split(built.text)
        IN  /\ BlocksOf(built.text, blocks)
            /\ Len(doc) = 3 + Len(blocks)
            /\ doc[1].kind = "text" /\ doc[1].text = HeaderText
            /\ doc[2].kind = "text" /\ doc[2].text = SourcePrefix \o built.name
            /\ doc[3].kind = "break"
            /\ \A i \in 1..Len(blocks) :
                  IF Trimmed(blocks[i]) # <<>>
                  THEN doc[3 + i].kind = "text" /\ doc[3 + i].text = Trimmed(blocks[i])
                  ELSE doc[3 + i].kind = "break" /\ doc[3 + i].text = <<>>

C19_Witness ==
    /\ tpc = "built"
    /\ Len(built.doc) = 6
    /\ built.doc[4].kind = "text"
    /\ built.doc[5].kind = "break"
    /\ built.doc[6].kind = "text"
    /\ built.name = <<"b", " ", ".", "p", "d", "f">>
    /\ \E i \in 1..Len(built.text) :
          built.text[i] = " " /\ SubSeq(built.text, i + 1, i + 2) = <<"\n", "\n">>

(***************************************************************************)
(* Claims about the normalizer, continued.                                 *)
(***************************************************************************)
\* C21: cleanText only removes or replaces white space and never merges words:
\* when its result is not a placeholder, the sequence of the non-whitespace
\* characters is that of the input, and two non-whitespace characters that
\* white space separates in the input are still separated by at least one
\* whitespace character in the output
C21_NeverMergesWords ==
    tpc = "once" /\ input.type = "string" /\ cleaned \notin Placeholders =>
        LET n == Cardinality(NonSpaceAt(input.str))
        IN  /\ Cardinality(NonSpaceAt(cleaned)) = n
            /\ \A k \in 1..n :
                  cleaned[NthNonSpace(cleaned, k)] = input.str[NthNonSpace(input.str, k)]
            /\ \A k \in 1..(n - 1) :
                  NthNonSpace(input.str, k + 1) > NthNonSpace(input.str, k) + 1 =>
                      NthNonSpace(cleaned, k + 1) > NthNonSpace(cleaned, k) + 1

\* C22: cleanText of the earlier server revision returns a non-empty string for
\* every string input, strings made only of spaces, tabs and line breaks
\* included, and applying it twice gives the result of applying it once
C22_EarlierNeverEmpty ==
    input.type = "string" =>
        /\ tpc \in {"earlier", "earlier twice"} => cleaned # <<>>
        /\ tpc = "earlier twice" => recleaned = cleaned

(***************************************************************************)
(* Claims about the earlier server revision.                               *)
(***************************************************************************)
\* C23: in the earlier revision, when the output stream emits an error the
\* rejected promise of the write is handled by the catch block of the handler,
\* so the client is answered 500 with 'Failed to convert PDF to Word'; every
\* POST /convert request with a file is answered once its write has ended,
\* by the success result or by that 500
C23_EarlierWriteErrorAnswered ==
    \A e \in EarlierReqs :
        /\ ereq[e].pc = "errored" =>
              ereq[e].status = 500 /\ ereq[e].body = "Failed to convert PDF to Word"
        /\ ereq[e].file /\ ereq[e].pc \in {"closed", "errored", "caught"} =>
              \/ ereq[e].status = 200 /\ ereq[e].body = "success"
              \/ ereq[e].status = 500 /\ ereq[e].body = "Failed to convert PDF to Word"

(***************************************************************************)
(* Claims about the shutdown.                                              *)
(***************************************************************************)
\* the step in which the process exits
Exits == exitCode = -1 /\ exitCode' # -1

\* every connection of the server has ended
Drained ==
    /\ \A r \in Reqs : ~Open(req[r])
    /\ \A d \in Dls : dl[d].pc # "sending"

InFlight == {c \in Fetches : fetches[c].pc = "pending"}

\* C25: the Convert button is enabled only while a file is selected and no
\* conversion request is in flight, and at most one conversion request is in
\* flight at any time
C25_ConvertGuarded ==
    /\ ~convertDisabled => selectedFile # Null /\ InFlight = {}
    /\ Cardinality(InFlight) <= 1

\* C26: the download section is displayed only while a file is selected and
\* downloadUrl is the result of converting that file
C26_DownloadIsCurrent ==
    display["downloadSection"] =>
        /\ selectedFile # Null
        /\ downloadUrl # Null
        /\ fetches[downloadUrl.fetch].file = selectedFile

====
